---- MODULE Spec2Model ----
(***************************************************************************)
(* Task Store Service: the five Express routes of index.js over the        *)
(* single SQLite table "tasks".                                            *)
(*                                                                         *)
(* The table is a function from rowid to a row of SQL values.  Values are  *)
(* tagged, so that a JavaScript boolean, the SQLite integer it is bound    *)
(* to and the JSON number the row is serialised as stay distinguishable.   *)
(* Each route is one action: the handler, the single SQL statement it      *)
(* issues and the callback that answers.                                   *)
(***************************************************************************)
EXTENDS Integers, Sequences, FiniteSets

\* Largest rowid the model lets AUTOINCREMENT hand out.
MaxId == 2

\* Most update statements handed to the driver and not yet run.
MaxInFlight == 2

VARIABLES
    tasks,            \* the rows of table tasks: rowid -> [title, description, completed]
    sqlite_sequence,  \* AUTOINCREMENT bookkeeping: the largest rowid ever assigned
    req,              \* the request handled last
    res,              \* the response sent for it
    issued,           \* observer: the ids answered by create, in order
    deleted,          \* observer: the ids whose delete answered 200
    fresh,            \* observer: id -> the title/description of its create, while
                      \*   no update or delete of the id has answered 200 since
    markedDone,       \* observer: the ids whose latest 200 update carried completed
                      \*   true, while no delete of the id has answered 200 since
    sent,             \* the res.json calls the callback of the last request made, in order
    inflight,         \* the update statements handed to the driver and not yet run
    survivors,        \* observer: the statements still in flight when the last one ran
    prev,             \* observer: the request handled before the last, and its status
    raced             \* observer: the last statement run was already in flight when
                      \*   the one before it ran

\* The in-flight statements and their observers.
flight == <<inflight, survivors, prev, raced>>

vars == <<tasks, sqlite_sequence, req, res, issued, deleted, fresh, markedDone, sent, flight>>

----------------------------------------------------------------------------
(* JavaScript values (request fields, JSON response fields) *)

Undefined == [t |-> "undefined", v |-> ""]
Null      == [t |-> "null", v |-> ""]
Bool(b)   == [t |-> "boolean", v |-> IF b THEN "true" ELSE "false"]
Str(s)    == [t |-> "string", v |-> s]

\* Decimal numerals of the small integers the model uses.
Numerals == <<"0", "1", "2", "3", "4", "5", "6", "7", "8", "9">>

ItoA(n) == Numerals[n + 1]

IsNumeral(s) == \E n \in 1..Len(Numerals) : Numerals[n] = s

AtoI(s) == (CHOOSE n \in 1..Len(Numerals) : Numerals[n] = s) - 1

Num(n) == [t |-> "number", v |-> ItoA(n)]

(* SQLite values, by storage class *)

SqlNull    == [t |-> "NULL", v |-> ""]
SqlInt(n)  == [t |-> "INTEGER", v |-> ItoA(n)]
SqlText(s) == [t |-> "TEXT", v |-> s]

\* node-sqlite3 parameter binding: a string binds as TEXT, a number as
\* INTEGER, a boolean as INTEGER 1/0, null as NULL; undefined is left
\* unbound, which SQLite reads as NULL.
Bind(x) ==
    CASE x.t = "string"  -> SqlText(x.v)
      [] x.t = "number"  -> [t |-> "INTEGER", v |-> x.v]
      [] x.t = "boolean" -> SqlInt(IF x.v = "true" THEN 1 ELSE 0)
      [] OTHER           -> SqlNull

\* Column affinity applied when a value is stored: a TEXT column turns an
\* integer into its numeral; a NUMERIC column (the declared type BOOLEAN)
\* turns a well-formed numeral into an integer and keeps any other text.
Affinity(decl, x) ==
    CASE decl = "TEXT" /\ x.t = "INTEGER"                   -> SqlText(x.v)
      [] decl = "NUMERIC" /\ x.t = "TEXT" /\ IsNumeral(x.v) -> [t |-> "INTEGER", v |-> x.v]
      [] OTHER                                              -> x

\* A column of a result row as the JavaScript value the driver hands back.
ColumnToJs(x) ==
    CASE x.t = "INTEGER" -> [t |-> "number", v |-> x.v]
      [] x.t = "TEXT"    -> Str(x.v)
      [] OTHER           -> Null

----------------------------------------------------------------------------
(* The table and its statements *)

Max(a, b) == IF a >= b THEN a ELSE b

MaxRowid(t) == IF DOMAIN t = {} THEN 0 ELSE CHOOSE m \in DOMAIN t : \A i \in DOMAIN t : i <= m

\* INTEGER PRIMARY KEY: one more than the largest rowid in the table.
NextRowidReusing(t, seq) == MaxRowid(t) + 1

\* INTEGER PRIMARY KEY AUTOINCREMENT: one more than the largest rowid ever
\* assigned in the table.
NextRowid(t, seq) == Max(seq, MaxRowid(t)) + 1

\* title TEXT NOT NULL, description TEXT, completed BOOLEAN
StoredRow(params) ==
    [title       |-> Affinity("TEXT", params[1]),
     description |-> Affinity("TEXT", params[2]),
     completed   |-> Affinity("NUMERIC", params[3])]

\* Outcome of a statement: err, the table and sequence after it, and the
\* driver's this.lastID / this.changes.
Outcome(e, t, seq, lastID, changes) ==
    [err |-> e, tasks |-> t, seq |-> seq, lastID |-> lastID, changes |-> changes]

InsertUnchecked(t, seq, params) ==
    LET id == NextRowid(t, seq)
        row == StoredRow(params)
    IN  Outcome(FALSE, [i \in DOMAIN t \cup {id} |-> IF i = id THEN row ELSE t[i]],
                Max(seq, id), id, 1)

\* INSERT INTO tasks (title, description, completed) VALUES (?, ?, ?)
Insert(t, seq, params) ==
    IF StoredRow(params).title = SqlNull
    THEN Outcome(TRUE, t, seq, 0, 0)   \* NOT NULL constraint failed: tasks.title
    ELSE InsertUnchecked(t, seq, params)

\* WHERE id = ?: the parameter is the path segment, bound as TEXT; against
\* the INTEGER column it compares as a number when it is a numeral and
\* matches no row otherwise.
Matching(t, id) ==
    LET p == Affinity("NUMERIC", Bind(id))
    IN  {i \in DOMAIN t : p.t = "INTEGER" /\ p.v = ItoA(i)}

UpdateConstraintFirst(t, seq, params) ==
    IF StoredRow(params).title = SqlNull
    THEN Outcome(TRUE, t, seq, 0, 0)
    ELSE LET hit == Matching(t, params[4])
         IN  Outcome(FALSE, [i \in DOMAIN t |-> IF i \in hit THEN StoredRow(params) ELSE t[i]],
                     seq, 0, Cardinality(hit))

UpdateUnchecked(t, seq, params) ==
    LET hit == Matching(t, params[4])
    IN  Outcome(FALSE, [i \in DOMAIN t |-> IF i \in hit THEN StoredRow(params) ELSE t[i]],
                seq, 0, Cardinality(hit))

UpdateMerging(t, seq, params) ==
    LET hit == Matching(t, params[4])
        new == StoredRow(params)
        merged(old) == [f \in {"title", "description", "completed"} |->
                           IF new[f] = SqlNull THEN old[f] ELSE new[f]]
    IN  Outcome(FALSE, [i \in DOMAIN t |-> IF i \in hit THEN merged(t[i]) ELSE t[i]],
                seq, 0, Cardinality(hit))

UpdateNonAtomic(t, seq, params) ==
    LET hit == Matching(t, params[4])
        row == StoredRow(params)
        partial(old) == [old EXCEPT !.description = row.description,
                                    !.completed = row.completed]
    IN  IF hit # {} /\ row.title = SqlNull
        THEN Outcome(TRUE, [i \in DOMAIN t |-> IF i \in hit THEN partial(t[i]) ELSE t[i]],
                     seq, 0, 0)
        ELSE Outcome(FALSE, [i \in DOMAIN t |-> IF i \in hit THEN row ELSE t[i]],
                     seq, 0, Cardinality(hit))

\* UPDATE tasks SET title = ?, description = ?, completed = ? WHERE id = ?
Update(t, seq, params) ==
    LET hit == Matching(t, params[4])
        row == StoredRow(params)
    IN  IF hit # {} /\ row.title = SqlNull
        THEN Outcome(TRUE, t, seq, 0, 0)   \* NOT NULL constraint failed: tasks.title
        ELSE Outcome(FALSE, [i \in DOMAIN t |-> IF i \in hit THEN row ELSE t[i]],
                     seq, 0, Cardinality(hit))

\* DELETE FROM tasks WHERE id = ?
Delete(t, seq, id) ==
    LET hit == Matching(t, id)
    IN  Outcome(FALSE, [i \in DOMAIN t \ hit |-> t[i]], seq, 0, Cardinality(hit))

\* A result row as the object the driver builds from it.
RowToJs(t, i) ==
    [id          |-> Num(i),
     title       |-> ColumnToJs(t[i].title),
     description |-> ColumnToJs(t[i].description),
     completed   |-> ColumnToJs(t[i].completed)]

RECURSIVE RowsFrom(_, _)
RowsFrom(t, ids) ==
    IF ids = {} THEN <<>>
    ELSE LET m == CHOOSE i \in ids : \A j \in ids : i <= j
         IN  <<RowToJs(t, m)>> \o RowsFrom(t, ids \ {m})

SelectAllCompletedOnly(t) == RowsFrom(t, {i \in DOMAIN t : t[i].completed = SqlInt(1)})

\* SELECT * FROM tasks, in rowid order
SelectAll(t) == RowsFrom(t, DOMAIN t)

\* SELECT * FROM tasks WHERE id = ?
SelectById(t, id) == RowsFrom(t, Matching(t, id))

----------------------------------------------------------------------------
(* Requests and responses *)

Titles       == {Undefined, Str("A")}
Descriptions == {Undefined, Str("d")}
Completeds   == {Undefined, Bool(TRUE)}
PathIds      == {Str(ItoA(i)) : i \in 1..MaxId} \cup {Str("abc")}

Request(op, id, title, description, completed) ==
    [op |-> op, id |-> id, title |-> title, description |-> description,
     completed |-> completed]

Response(status, body) == [status |-> status, body |-> body]

NotFound == Response(404, [message |-> "Tarea no encontrada"])

StorageError == Response(500, [error |-> "SQLITE_CONSTRAINT"])

\* The body of res.json({ id, title, description, completed })
TaskJson(id, title, description, completed) ==
    [id |-> id, title |-> title, description |-> description, completed |-> completed]

----------------------------------------------------------------------------
(* The route handlers *)

\* db.all('SELECT * FROM tasks', [], (err, rows) => res.json(rows))
GetTasksResponse(t) == Response(200, SelectAll(t))

PostTasksParamsFromBody(r) == <<Bind(r.title), Bind(r.description), Bind(r.completed)>>

\* const params = [title, description, false]
PostTasksParams(r) == <<Bind(r.title), Bind(r.description), Bind(Bool(FALSE))>>

\* function (err) { ... res.json({ id: this.lastID, title, description, completed: false }) }
PostTasksResponse(r, out) ==
    IF out.err THEN StorageError
    ELSE Response(200, TaskJson(Num(out.lastID), r.title, r.description, Bool(FALSE)))

GetTaskByIdAsText(t, id) ==
    LET rows == RowsFrom(t, {i \in DOMAIN t : Bind(id) = SqlInt(i)})
    IN  IF rows = <<>> THEN NotFound ELSE Response(200, rows[1])

\* db.get('SELECT * FROM tasks WHERE id = ?', [id], (err, row) => ...)
GetTaskByIdResponse(t, id) ==
    LET rows == SelectById(t, id)
    IN  IF rows = <<>> THEN NotFound ELSE Response(200, rows[1])

\* const params = [title, description, completed, id]
PutTaskParams(r) == <<Bind(r.title), Bind(r.description), Bind(r.completed), r.id>>

\* function (err) { ... if (this.changes === 0) 404 ... res.json({ id, title, description, completed }) }
PutTaskResponse(r, out) ==
    IF out.err THEN StorageError
    ELSE IF out.changes = 0 THEN NotFound
    ELSE Response(200, TaskJson(r.id, r.title, r.description, r.completed))

\* function (err) { ... if (this.changes === 0) 404 ... res.json({ message }) }
DeleteTaskResponse(out) ==
    IF out.err THEN StorageError
    ELSE IF out.changes = 0 THEN NotFound
    ELSE Response(200, [message |-> "Tarea eliminada correctamente"])

\* One statement of a callback: if (when) { [return] res...json(send) }
Stmt(when, send, returns) == [when |-> when, send |-> send, returns |-> returns]

\* The res.json calls a callback makes, in order: a statement whose
\* condition holds sends, and ends the callback when it returns.
RECURSIVE Run(_)
Run(stmts) ==
    IF stmts = <<>> THEN <<>>
    ELSE LET s == Head(stmts)
         IN  IF ~s.when THEN Run(Tail(stmts))
             ELSE IF s.returns THEN <<s.send>>
             ELSE <<s.send>> \o Run(Tail(stmts))

\* (err, rows) => { if (err) { return 500 } res.json(rows) }; a SELECT
\* raises no error of its own.
GetTasksCallback(t) ==
    <<Stmt(FALSE, StorageError, TRUE),
      Stmt(TRUE, Response(200, SelectAll(t)), FALSE)>>

\* function (err) { if (err) { return 500 } res.json({ id: this.lastID, ... }) }
PostTasksCallback(r, out) ==
    <<Stmt(out.err, StorageError, TRUE),
      Stmt(TRUE, Response(200, TaskJson(Num(out.lastID), r.title, r.description,
                                        Bool(FALSE))), FALSE)>>

\* (err, row) => { if (err) { return 500 } if (!row) { return 404 } res.json(row) }
GetTaskByIdCallback(t, id) ==
    LET rows == SelectById(t, id)
    IN  <<Stmt(FALSE, StorageError, TRUE),
          Stmt(rows = <<>>, NotFound, TRUE),
          Stmt(TRUE, Response(200, IF rows = <<>> THEN Undefined ELSE rows[1]), FALSE)>>

PutTaskCallbackNoReturn(r, out) ==
    <<Stmt(out.err, StorageError, FALSE),
      Stmt(out.changes = 0, NotFound, FALSE),
      Stmt(TRUE, Response(200, TaskJson(r.id, r.title, r.description, r.completed)), FALSE)>>

\* function (err) { if (err) { return 500 } if (this.changes === 0) { return 404 }
\*                  res.json({ id, title, description, completed }) }
PutTaskCallback(r, out) ==
    <<Stmt(out.err, StorageError, TRUE),
      Stmt(out.changes = 0, NotFound, TRUE),
      Stmt(TRUE, Response(200, TaskJson(r.id, r.title, r.description, r.completed)), FALSE)>>

\* function (err) { if (err) { return 500 } if (this.changes === 0) { return 404 }
\*                  res.json({ message }) }
DeleteTaskCallback(out) ==
    <<Stmt(out.err, StorageError, TRUE),
      Stmt(out.changes = 0, NotFound, TRUE),
      Stmt(TRUE, Response(200, [message |-> "Tarea eliminada correctamente"]), FALSE)>>

\* The rowid a client reads off the id of a request it got 200 for.
IdOf(id) == AtoI(id.v)

NoBody == Request("", Str(""), Undefined, Undefined, Undefined)

Init ==
    /\ tasks = <<>>
    /\ sqlite_sequence = 0
    /\ req = NoBody
    /\ res = Response(0, <<>>)
    /\ issued = <<>>
    /\ deleted = {}
    /\ fresh = <<>>
    /\ markedDone = {}
    /\ sent = <<>>
    /\ inflight = {}
    /\ survivors = {}
    /\ prev = [req |-> NoBody, status |-> 0]
    /\ raced = FALSE

\* app.get('/tasks')
GetTasks ==
    /\ req' = Request("list", Str(""), Undefined, Undefined, Undefined)
    /\ res' = GetTasksResponse(tasks)
    /\ sent' = Run(GetTasksCallback(tasks))
    /\ UNCHANGED <<tasks, sqlite_sequence, issued, deleted, fresh, markedDone, flight>>

\* app.post('/tasks')
PostTasks ==
    \E title \in Titles, description \in Descriptions, completed \in Completeds :
        LET r   == Request("create", Str(""), title, description, completed)
            out == Insert(tasks, sqlite_sequence, PostTasksParams(r))
            rsp == PostTasksResponse(r, out)
        IN  /\ sqlite_sequence < MaxId
            /\ req' = r
            /\ res' = rsp
            /\ tasks' = out.tasks
            /\ sqlite_sequence' = out.seq
            /\ issued' = IF rsp.status = 200 THEN Append(issued, IdOf(rsp.body.id)) ELSE issued
            /\ fresh' = IF rsp.status = 200
                        THEN [i \in DOMAIN fresh \cup {IdOf(rsp.body.id)} |->
                                 IF i = IdOf(rsp.body.id)
                                 THEN [title |-> title, description |-> description]
                                 ELSE fresh[i]]
                        ELSE fresh
            /\ sent' = Run(PostTasksCallback(r, out))
            /\ UNCHANGED <<deleted, markedDone, flight>>

GetTaskByIdConsuming ==
    \E id \in PathIds :
        /\ req' = Request("read", id, Undefined, Undefined, Undefined)
        /\ res' = GetTaskByIdResponse(tasks, id)
        /\ sent' = Run(GetTaskByIdCallback(tasks, id))
        /\ tasks' = Delete(tasks, sqlite_sequence, id).tasks
        /\ UNCHANGED <<sqlite_sequence, issued, deleted, fresh, markedDone, flight>>

\* app.get('/tasks/:id')
GetTaskById ==
    \E id \in PathIds :
        /\ req' = Request("read", id, Undefined, Undefined, Undefined)
        /\ res' = GetTaskByIdResponse(tasks, id)
        /\ sent' = Run(GetTaskByIdCallback(tasks, id))
        /\ UNCHANGED <<tasks, sqlite_sequence, issued, deleted, fresh, markedDone, flight>>

\* The update statement of request r runs and its callback answers.
PutTaskRun(r) ==
    LET out == Update(tasks, sqlite_sequence, PutTaskParams(r))
        rsp == PutTaskResponse(r, out)
    IN  /\ req' = r
        /\ res' = rsp
        /\ sent' = Run(PutTaskCallback(r, out))
        /\ tasks' = out.tasks
        /\ sqlite_sequence' = out.seq
        /\ fresh' = IF rsp.status = 200
                    THEN [i \in DOMAIN fresh \ {IdOf(r.id)} |-> fresh[i]]
                    ELSE fresh
        /\ markedDone' = IF rsp.status # 200 THEN markedDone
                         ELSE IF r.completed = Bool(TRUE) THEN markedDone \cup {IdOf(r.id)}
                         ELSE markedDone \ {IdOf(r.id)}
        /\ UNCHANGED <<issued, deleted>>

\* app.put('/tasks/:id')
PutTask ==
    \E id \in PathIds, title \in Titles, description \in Descriptions,
       completed \in Completeds :
        /\ PutTaskRun(Request("update", id, title, description, completed))
        /\ UNCHANGED flight

\* app.delete('/tasks/:id')
DeleteTask ==
    \E id \in PathIds :
        LET r   == Request("delete", id, Undefined, Undefined, Undefined)
            out == Delete(tasks, sqlite_sequence, id)
            rsp == DeleteTaskResponse(out)
        IN  /\ req' = r
            /\ res' = rsp
            /\ tasks' = out.tasks
            /\ sqlite_sequence' = out.seq
            /\ deleted' = IF rsp.status = 200 THEN deleted \cup {IdOf(id)} ELSE deleted
            /\ fresh' = IF rsp.status = 200
                        THEN [i \in DOMAIN fresh \ {IdOf(id)} |-> fresh[i]]
                        ELSE fresh
            /\ markedDone' = IF rsp.status = 200 THEN markedDone \ {IdOf(id)} ELSE markedDone
            /\ sent' = Run(DeleteTaskCallback(out))
            /\ UNCHANGED <<issued, flight>>

Next == GetTasks \/ PostTasks \/ GetTaskById \/ PutTask \/ DeleteTask

Spec == Init /\ [][Next]_vars

----------------------------------------------------------------------------
(* Update statements in flight: db.run hands the statement to the driver and
   returns; the driver runs the statements it holds one at a time, in any
   order, and calls each one's callback when it has run.  The in-flight
   statements are a set: two equal requests in flight count once. *)

\* The table after one create that carried a title.
InitInFlight ==
    \E description \in Descriptions :
        LET r   == Request("create", Str(""), Str("A"), description, Undefined)
            out == Insert(<<>>, 0, PostTasksParams(r))
        IN  /\ tasks = out.tasks
            /\ sqlite_sequence = out.seq
            /\ req = r
            /\ res = PostTasksResponse(r, out)
            /\ sent = Run(PostTasksCallback(r, out))
            /\ issued = <<out.lastID>>
            /\ deleted = {}
            /\ fresh = [i \in {out.lastID} |-> [title |-> r.title, description |-> description]]
            /\ markedDone = {}
            /\ inflight = {}
            /\ survivors = {}
            /\ prev = [req |-> NoBody, status |-> 0]
            /\ raced = FALSE

\* app.put('/tasks/:id') up to db.run(sql, params, ...), for a stored id
PutTaskIssue ==
    \E i \in DOMAIN tasks, title \in Titles, description \in Descriptions,
       completed \in Completeds :
        /\ Cardinality(inflight) < MaxInFlight
        /\ inflight' = inflight \cup {Request("update", Str(ItoA(i)), title, description,
                                               completed)}
        /\ UNCHANGED <<tasks, sqlite_sequence, req, res, issued, deleted, fresh, markedDone,
                       sent, survivors, prev, raced>>

\* One in-flight update statement runs, and its callback answers.
PutTaskCommit ==
    \E r \in inflight :
        /\ PutTaskRun(r)
        /\ inflight' = inflight \ {r}
        /\ survivors' = inflight \ {r}
        /\ prev' = [req |-> req, status |-> res.status]
        /\ raced' = (r \in survivors)

NextInFlight == PutTaskIssue \/ PutTaskCommit

SpecInFlight == InitInFlight /\ [][NextInFlight]_vars

----------------------------------------------------------------------------
(* Properties *)

\* The path segment that names rowid i.
PathOf(i) == Str(ItoA(i))

\* The request names a row that is in the table.
Targets(r, t) == IsNumeral(r.id.v) /\ IdOf(r.id) \in DOMAIN t

\* A field read back equals the one submitted; an omitted one reads as null.
ReadsAs(submitted, read) ==
    \/ read = submitted
    \/ submitted = Undefined /\ read = Null

\* C1: after a create answered 200 with id i, and with no update or delete
\* of i since, read-by-id of i answers 200 with a Task of id i, the
\* submitted title and description, and completed false.
C1_CreateThenRead ==
    \A i \in DOMAIN fresh :
        LET r == GetTaskByIdResponse(tasks, PathOf(i))
        IN  /\ r.status = 200
            /\ r.body.id = Num(i)
            /\ ReadsAs(fresh[i].title, r.body.title)
            /\ ReadsAs(fresh[i].description, r.body.description)
            /\ r.body.completed = Bool(FALSE)

\* C2: a read, update or delete of an id with no row in the table answers
\* 404, whatever the body, an update body without title included.
C2_MissingIdIs404 ==
    [][(req'.op \in {"read", "update", "delete"} /\ ~Targets(req', tasks))
          => res'.status = 404]_vars

C2_Witness ==
    /\ req.op = "update"
    /\ req.title = Undefined
    /\ tasks # <<>>
    /\ res.status = 404

\* C3: once a delete of id i answered 200, read-by-id of i answers 404 and
\* list holds no Task of id i, in every later state.
C3_DeletedStaysGone ==
    /\ \A i \in deleted :
          /\ GetTaskByIdResponse(tasks, PathOf(i)).status = 404
          /\ \A k \in 1..Len(GetTasksResponse(tasks).body) :
                GetTasksResponse(tasks).body[k].id # Num(i)
    /\ (req.op = "read" /\ IsNumeral(req.id.v) /\ IdOf(req.id) \in deleted)
          => res.status = 404

C3_Witness ==
    /\ req.op = "read"
    /\ IsNumeral(req.id.v)
    /\ IdOf(req.id) \in deleted
    /\ \E j \in DOMAIN tasks : j > IdOf(req.id)
    /\ Len(issued) > Cardinality(DOMAIN tasks)
    /\ res.status = 404

\* C4: from the empty table, after N creates answered 200 and no delete,
\* list answers N entries, and read-by-id of each entry's id answers 200
\* with that entry.
C4_ListMatchesCreates ==
    deleted = {} =>
        LET l == GetTasksResponse(tasks)
        IN  /\ l.status = 200
            /\ Len(l.body) = Len(issued)
            /\ \A k \in 1..Len(l.body) :
                  GetTaskByIdResponse(tasks, Str(l.body[k].id.v)) = Response(200, l.body[k])

C4_Witness ==
    /\ deleted = {}
    /\ Len(issued) = 2
    /\ req.op = "list"
    /\ Len(res.body) = 2
    /\ \E k \in 1..2 : res.body[k].completed # Num(0)

IssuedIncreasing == \A j, k \in 1..Len(issued) : j < k => issued[j] < issued[k]

\* C5: the ids answered by create are strictly increasing, so none is
\* handed out twice, a deleted one included; an update changes no id.
C5_IdsNeverReused ==
    [][/\ IssuedIncreasing'
       /\ req'.op = "update" => DOMAIN tasks' = DOMAIN tasks]_vars

C5_Witness ==
    /\ req.op = "create"
    /\ res.status = 200
    /\ deleted # {}
    /\ DOMAIN tasks = {IdOf(res.body.id)}
    /\ \A i \in deleted : i < IdOf(res.body.id)

\* C6 as stated: a create that omits title answers 200 and stores a Task
\* whose title is null.
C6_MissingTitleStored ==
    (req.op = "create" /\ req.title = Undefined)
        => /\ res.status = 200
           /\ \E i \in DOMAIN tasks : tasks[i].title = SqlNull

\* C6: a create that omits title answers 500 and stores nothing.
C6_MissingTitleRejected ==
    [][(req'.op = "create" /\ req'.title = Undefined)
          => /\ res'.status = 500
             /\ tasks' = tasks
             /\ sqlite_sequence' = sqlite_sequence]_vars

C6_Witness ==
    /\ req.op = "create"
    /\ req.title = Undefined
    /\ res.status = 500

\* C7: every stored Task has a non-null title.
C7_TitleNeverNull ==
    \A i \in DOMAIN tasks :
        /\ tasks[i].title # SqlNull
        /\ GetTaskByIdResponse(tasks, PathOf(i)).body.title # Null

C7_Witness ==
    /\ req.op = "update"
    /\ req.title = Undefined
    /\ Targets(req, tasks)
    /\ res.status = 500

MutableFields == {"title", "description", "completed"}

\* C8 as stated: after an update of an existing id, every field the body
\* omitted is stored as null.
C8_OmittedFieldsNulled ==
    (req.op = "update" /\ Targets(req, tasks))
        => \A f \in MutableFields :
              req[f] = Undefined => tasks[IdOf(req.id)][f] = SqlNull

\* C8: an update of an existing id that carries a title answers 200 and
\* stores null for each of description and completed the body omitted; one
\* that omits title answers 500 and leaves the table as it was.
C8_FullReplaceUnlessTitleMissing ==
    [][(req'.op = "update" /\ Targets(req', tasks))
          => IF req'.title = Undefined
             THEN res'.status = 500 /\ tasks' = tasks
             ELSE /\ res'.status = 200
                  /\ \A f \in MutableFields :
                        tasks'[IdOf(req'.id)][f] =
                            IF req'[f] = Undefined THEN SqlNull
                            ELSE Affinity(IF f = "completed" THEN "NUMERIC" ELSE "TEXT",
                                          Bind(req'[f]))]_vars

C8_Witness ==
    /\ req.op = "update"
    /\ res.status = 200
    /\ req.description = Undefined
    /\ req.completed = Undefined
    /\ IdOf(req.id) \notin DOMAIN fresh
    /\ tasks[IdOf(req.id)].description = SqlNull
    /\ tasks[IdOf(req.id)].completed = SqlNull

\* C9: after an update of id i with completed true answered 200, and with
\* no update or delete of i since, read-by-id of i answers a Task whose
\* completed is the boolean true.
C9_UpdateThenReadTrue ==
    \A i \in markedDone :
        LET r == GetTaskByIdResponse(tasks, PathOf(i))
        IN  r.status = 200 /\ r.body.completed = Bool(TRUE)

C11_ReadsChangeNothing ==
    [][req'.op \in {"list", "read"}
          => tasks' = tasks /\ sqlite_sequence' = sqlite_sequence]_vars

C11_Witness ==
    /\ req.op = "read"
    /\ res.status = 200
    /\ res.body = RowToJs(tasks, IdOf(req.id))
    /\ Cardinality(DOMAIN tasks) > 1

\* The stored form of the three fields an update request carries.
Triple(r) == StoredRow(PutTaskParams(r))

\* The last two requests handled are updates of one id, which is stored,
\* and they were in flight at once.
RacedOnOneId ==
    /\ raced
    /\ prev.req.op = "update"
    /\ req.op = "update"
    /\ prev.req.id = req.id
    /\ Targets(req, tasks)

\* C12 as stated: two updates of one stored id that were in flight at once
\* both answer 200, and the stored Task is the triple of the one that ran
\* last.
C12_BothAnswer200 ==
    RacedOnOneId
        => /\ prev.status = 200
           /\ res.status = 200
           /\ tasks[IdOf(req.id)] = Triple(req)

\* C12: of two updates of one stored id that were in flight at once, each
\* answers 200 when it carries a title and 500 when it does not; the stored
\* Task is the whole triple of the last of them that answered 200.
C12_LastAcceptedUpdateWins ==
    RacedOnOneId
        => /\ prev.status = IF prev.req.title = Undefined THEN 500 ELSE 200
           /\ res.status = IF req.title = Undefined THEN 500 ELSE 200
           /\ res.status = 200 => tasks[IdOf(req.id)] = Triple(req)
           /\ (res.status = 500 /\ prev.status = 200)
                 => tasks[IdOf(req.id)] = Triple(prev.req)

C12_Witness ==
    /\ RacedOnOneId
    /\ inflight = {}
    /\ prev.status = 200
    /\ res.status = 200
    /\ prev.req.description # req.description
    /\ prev.req.completed # req.completed

\* C13: a create, update or delete that answers 404 or 500 leaves the
\* table as it was.
C13_FailuresChangeNothing ==
    [][(req'.op \in {"create", "update", "delete"} /\ res'.status \in {404, 500})
          => tasks' = tasks /\ sqlite_sequence' = sqlite_sequence]_vars

C13_Witness ==
    /\ req.op = "update"
    /\ Targets(req, tasks)
    /\ res.status = 500
    /\ req.description = Str("d")
    /\ req.completed = Bool(TRUE)
    /\ tasks[IdOf(req.id)].description = SqlNull
    /\ tasks[IdOf(req.id)].completed # SqlInt(1)

\* C14: the callback of every request sends exactly one response, with
\* status 200, 404 or 500; list and create never answer 404.
C14_ExactlyOneResponse ==
    req.op # "" =>
        /\ Len(sent) = 1
        /\ sent[1] = res
        /\ res.status \in {200, 404, 500}
        /\ req.op \in {"list", "create"} => res.status # 404

C14_Witness ==
    /\ req.op = "update"
    /\ sent = <<StorageError>>
    /\ tasks # <<>>

====
